---- MODULE Spec2Model ----
(***************************************************************************)
(* The SSE proxy of src/proxy/main.py: one invocation of                   *)
(* POST /semantic-search/stream.  The endpoint handler builds the outer    *)
(* StreamingResponse around the async generator generate(); the generator  *)
(* is driven by the consumer of the response body and relays the chunks of *)
(* the upstream (Dapr sidecar) response.                                   *)
(*                                                                         *)
(* The same service's workflow lookup and direct stream endpoint follow,   *)
(* then the workflow worker of src/python: the embedding model cache, the  *)
(* workflow runtime manager and HelloWorldApp.                             *)
(*                                                                         *)
(* Byte strings are sequences of one-character strings.  All texts in the  *)
(* model are ASCII, where str.encode('utf-8') maps every character to the  *)
(* byte of the same value.                                                 *)
(***************************************************************************)
EXTENDS Integers, Sequences, FiniteSets, TLC

\* ------------------------------------------------------------------ bounds
\* Largest number of chunks response.aiter_raw() delivers in one invocation.
MaxChunks == 3

\* The wait bound timeout=300.0 of the streaming client, counted in clock
\* ticks.
TimeoutTicks == 2

\* The clock stops at this many ticks.
MaxElapsed == 4

\* Two requests in flight are interleaved while they have read at most this
\* many upstream chunks between them.
MaxInterleavedChunks == 1

\* Worker threads that run activities at the same time.
Workers == 2

\* Calls of WorkflowRuntimeManager.start() and stop() in one run.
MaxManagerCalls == 5

\* Signals delivered to the process in one run.
MaxSignals == 1

\* ------------------------------------------------------------ input domains
None == "None"

\* Chunks aiter_raw() may deliver; b"" is the chunk the `if chunk:` test skips.
Chunks == { <<>>, <<"a">>, <<"b", "c">> }

\* Values of the upstream response's content-encoding header (None: absent).
Encodings == { None, "gzip" }

\* Upstream status codes.
Statuses == { 200, 500 }

\* str(e) of the exceptions raised in the model.
Texts == { <<"r", "e", "f", "u", "s", "e", "d">>, <<"b", "o", "o", "m">> }

\* str(e) of what `await request.json()` raises: the texts above, and the
\* first words of json.JSONDecodeError("Invalid \escape: line 1 column 8
\* (char 7)"), raised on the body {"a": "\q"}.
InvalidEscapeText ==
    << "I", "n", "v", "a", "l", "i", "d", " ", "\\", "e", "s", "c", "a", "p", "e" >>

HandlerTexts == Texts \cup { InvalidEscapeText }

\* Exception classes: httpx.ConnectTimeout and httpx.ReadTimeout derive from
\* httpx.TimeoutException, which derives (through TransportError) from
\* httpx.RequestError, as do httpx.ConnectError and httpx.ReadError;
\* "Exception" is any other subclass of Exception.
ExcTypes == { "ConnectTimeout", "ReadTimeout", "ConnectError", "ReadError", "Exception" }

\* What `await request.json()` and body.get('query') raise on a bad body.
HandlerExcTypes == { "JSONDecodeError", "AttributeError" }

\* What tears the generator down when the consumer goes away; both derive
\* from BaseException only.
TeardownTypes == { "CancelledError", "GeneratorExit" }

\* Exceptions that can come out of entering client.stream(...).
ConnectExcTypes == ExcTypes

\* Exceptions that can come out of response.aiter_raw().
ReadExcTypes == { "ReadTimeout", "ReadError", "Exception" }

\* Outcome of `await request.json()` followed by body.get('query'): a JSON
\* object, a body that is not JSON, or JSON that is not an object.
Bodies == { "object", "invalid_json", "not_an_object" }

NoResponse == [media_type |-> None, headers |-> {}, body |-> None]
NoUpstream == [status |-> 0, content_encoding |-> None, received |-> FALSE]
NoExc == [type |-> None, text |-> <<>>]

\* _default_model_name and one more model a request may name.
default_model_name == "all-MiniLM-L6-v2"

ModelNames == { default_model_name, "all-mpnet-base-v2" }

WorkerThreads == 1..Workers

\* No SentenceTransformer object, and the result of a call not yet made.
NoModel == [name |-> None, id |-> 0]
NoReturn == [outcome |-> None, model |-> NoModel]

\* No call of the runtime manager has finished yet.
NoCall == [op |-> None, outcome |-> None, raised_inside |-> FALSE, was_running |-> FALSE]

\* -------------------------------------------------------------------- state
VARIABLES
    hpc,               \* endpoint handler: "idle" | "returned" | "raised"
    content_encoding,  \* the closure variable shared by handler and generate()
    response,          \* the outer response the handler returned
    handler_exc,       \* the exception `e` bound by the handler's except clause
    gpc,               \* position of the body generator
    up,                \* the upstream response (status line and headers)
    upstream,          \* the chunks aiter_raw() has delivered so far
    chunk_count,       \* generate()'s local counter
    out,               \* the items the consumer has been handed
    accepted,          \* how many of them the consumer has pulled past
    exc,               \* the exception generate() caught
    fail_phase,        \* where it was raised: "connecting" | "streaming"
    kind,              \* how the invocation ended
    conn,              \* the httpx client and upstream response of generate():
                       \* "none" | "client" | "response" | "closed"
    attempts,          \* upstream requests generate() has opened
    waited,            \* ticks the current wait on upstream has lasted
    elapsed,           \* ticks since the body generator was started
    other,             \* the other in-flight stream request, while this one runs
    wpc,               \* proxy_get_workflow: "idle" | "returned" | "raised"
    w_attempts,        \* upstream requests proxy_get_workflow has made
    w_up,              \* what its upstream call came back with
    w_response,        \* the response proxy_get_workflow returned
    models,            \* generate_embeddings._models: model name -> instance
    loads,             \* per model name, the SentenceTransformer objects built
    tpc,               \* per worker thread, its position in _get_model
    tname,             \* per worker thread, the local model_name
    tmodel,            \* per worker thread, the local model
    tret,              \* per worker thread, what its last call came back with
    is_running,        \* WorkflowRuntimeManager.is_running
    runtime,           \* the wf.WorkflowRuntime: "created" | "started" | "shutdown"
    mpc,               \* calls of WorkflowRuntimeManager.start() asleep in sleep(2)
    m_calls,           \* calls of start() and stop() made so far
    m_result,          \* how the last finished call of start() or stop() ended
    apc,               \* position of HelloWorldApp.start()
    shutdown_event,    \* HelloWorldApp.shutdown_event is set
    server_task,       \* the task of _run_server(): "none" | "running" |
                       \* "finished" | "failed" | "cancelled"
    signals,           \* signals delivered so far
    log                \* the calls HelloWorldApp.start() has made, in order

\* The state of one stream request.
request_vars == << hpc, content_encoding, response, handler_exc, gpc, up, upstream,
                   chunk_count, out, accepted, exc, fail_phase, kind, conn,
                   attempts, waited, elapsed >>

\* The state of the workflow lookup.
lookup_vars == << wpc, w_attempts, w_up, w_response >>

\* The state of the proxy service.
proxy_vars == << request_vars, other, lookup_vars >>

\* The embedding model cache of the workflow worker.
cache_vars == << models, loads, tpc, tname, tmodel, tret >>

\* The workflow runtime manager of the worker.
manager_vars == << is_running, runtime, mpc, m_calls, m_result >>

\* HelloWorldApp.
app_vars == << apc, shutdown_event, server_task, signals, log >>

\* The state of the workflow worker (src/python).
worker_vars == << cache_vars, manager_vars, app_vars >>

vars == << request_vars, other, lookup_vars, worker_vars >>

\* ------------------------------------------------------- the event format
EventPrefix ==
    << "e", "v", "e", "n", "t", ":", " ", "e", "r", "r", "o", "r", "\n",
       "d", "a", "t", "a", ":", " ", "{", "\"", "m", "e", "s", "s", "a", "g", "e",
       "\"", ":", " ", "\"" >>

EventSuffix == << "\"", "}", "\n", "\n" >>

RequestTimeout ==
    << "R", "e", "q", "u", "e", "s", "t", " ", "t", "i", "m", "e", "o", "u", "t" >>

ConnectionErrorPrefix ==
    << "C", "o", "n", "n", "e", "c", "t", "i", "o", "n", " ",
       "e", "r", "r", "o", "r", ":", " " >>

\* f'event: error\ndata: {{"message": "{message}"}}\n\n'.encode('utf-8')
FormatErrorEvent(message) == EventPrefix \o message \o EventSuffix

\* isinstance(e, httpx.TimeoutException)
IsTimeoutException(t) == t \in { "ConnectTimeout", "ReadTimeout" }

\* Variant of IsRequestError: the clause names a class that does not cover
\* httpx.ConnectError.
IsRequestError_MissesConnectError(t) ==
    t \in { "ConnectTimeout", "ReadTimeout", "ReadError" }

\* isinstance(e, httpx.RequestError)
IsRequestError(t) ==
    t \in { "ConnectTimeout", "ReadTimeout", "ConnectError", "ReadError" }

\* Variant of IsException: the last clause catches httpx errors only.
IsException_HttpxOnly(t) == IsRequestError(t)

\* isinstance(e, Exception)
IsException(t) == t \in ExcTypes \cup HandlerExcTypes

\* Variant of Classify: the httpx.RequestError clause is written first.
Classify_RequestErrorFirst(t) ==
    IF IsRequestError(t) THEN "connection_error"
    ELSE IF IsTimeoutException(t) THEN "timeout"
    ELSE IF IsException(t) THEN "internal_error"
    ELSE "propagates"

\* The except clauses of generate(), tried in source order; an exception
\* that matches none of them propagates out of the generator.
Classify(t) ==
    IF IsTimeoutException(t) THEN "timeout"
    ELSE IF IsRequestError(t) THEN "connection_error"
    ELSE IF IsException(t) THEN "internal_error"
    ELSE "propagates"

\* Variant of ErrorMessage: the timeout clause interpolates the exception.
ErrorMessage_TimeoutDetail(e) ==
    CASE Classify(e.type) = "timeout" -> RequestTimeout \o <<":", " ">> \o e.text
      [] Classify(e.type) = "connection_error" -> ConnectionErrorPrefix \o e.text
      [] OTHER -> e.text

\* The message the matching except clause of generate() puts into its event.
ErrorMessage(e) ==
    CASE Classify(e.type) = "timeout" -> RequestTimeout
      [] Classify(e.type) = "connection_error" -> ConnectionErrorPrefix \o e.text
      [] OTHER -> e.text

UpstreamItem(chunk) == [src |-> "upstream", bytes |-> chunk]
ErrorItem(bytes) == [src |-> "relay", bytes |-> bytes]

\* A stream request nothing has happened to yet.
NoRequest ==
    [hpc |-> "idle", content_encoding |-> None, response |-> NoResponse,
     handler_exc |-> NoExc, gpc |-> "notstarted", up |-> NoUpstream,
     upstream |-> <<>>, chunk_count |-> 0, out |-> <<>>, accepted |-> 0,
     exc |-> NoExc, fail_phase |-> None, kind |-> None, conn |-> "none",
     attempts |-> 0, waited |-> 0, elapsed |-> 0]

NoLookup == [outcome |-> None]
NoLookupResponse == [status_code |-> 0, body |-> <<>>]

\* --------------------------------------------------------------------- Init
Init ==
    /\ hpc = "idle"
    /\ content_encoding = None
    /\ response = NoResponse
    /\ handler_exc = NoExc
    /\ gpc = "notstarted"
    /\ up = NoUpstream
    /\ upstream = <<>>
    /\ chunk_count = 0
    /\ out = <<>>
    /\ accepted = 0
    /\ exc = NoExc
    /\ fail_phase = None
    /\ kind = None
    /\ conn = "none"
    /\ attempts = 0
    /\ waited = 0
    /\ elapsed = 0
    /\ other = NoRequest
    /\ wpc = "idle"
    /\ w_attempts = 0
    /\ w_up = NoLookup
    /\ w_response = NoLookupResponse
    /\ models = [n \in ModelNames |-> NoModel]
    /\ loads = [n \in ModelNames |-> 0]
    /\ tpc = [t \in WorkerThreads |-> "idle"]
    /\ tname = [t \in WorkerThreads |-> None]
    /\ tmodel = [t \in WorkerThreads |-> NoModel]
    /\ tret = [t \in WorkerThreads |-> NoReturn]
    /\ is_running = FALSE
    /\ runtime = "created"
    /\ mpc = 0
    /\ m_calls = 0
    /\ m_result = NoCall
    /\ apc = "init"
    /\ shutdown_event = FALSE
    /\ server_task = "none"
    /\ signals = 0
    /\ log = <<>>

\* ------------------------------------------------------ the endpoint handler
\* response_headers as the handler builds it: the three fixed headers, plus
\* Content-Encoding when the closure variable is truthy at that moment.
response_headers(ce) ==
    { <<"Cache-Control", "no-cache">>,
      <<"Connection", "keep-alive">>,
      <<"X-Accel-Buffering", "no">> }
    \cup (IF ce # None THEN { <<"Content-Encoding", ce>> } ELSE {})

\* The exception a bad request body raises inside the handler's try block.
BodyException(b) ==
    IF b = "invalid_json" THEN "JSONDecodeError" ELSE "AttributeError"

\* proxy_semantic_search_stream(request), the whole handler.  generate() is an
\* async generator: calling it runs none of its body, so content_encoding
\* still has the value assigned two statements earlier when the headers are
\* built and the response is returned.
proxy_semantic_search_stream ==
    /\ hpc = "idle"
    /\ \E b \in Bodies, text \in HandlerTexts :
        IF b = "object"
        THEN /\ content_encoding' = None
             /\ response' = [media_type |-> "text/event-stream",
                             headers |-> response_headers(content_encoding'),
                             body |-> "generate"]
             /\ handler_exc' = NoExc
             /\ hpc' = "returned"
        ELSE /\ handler_exc' = [type |-> BodyException(b), text |-> text]
             /\ IF IsException(BodyException(b))
                THEN /\ response' = [media_type |-> "text/event-stream",
                                     headers |-> {},
                                     body |-> "error_stream"]
                     /\ hpc' = "returned"
                ELSE /\ response' = NoResponse
                     /\ hpc' = "raised"
             /\ UNCHANGED content_encoding
    /\ UNCHANGED << other, lookup_vars, worker_vars >>
    /\ UNCHANGED << conn, attempts, waited, elapsed >>
    /\ UNCHANGED << gpc, up, upstream, chunk_count, out, accepted, exc,
                    fail_phase, kind >>

\* ------------------------------------------------- the generator generate()
\* The consumer's first __anext__(): generate() runs up to the await inside
\* `async with client.stream(...)`, one request to dapr_url.
StartGenerate ==
    /\ hpc = "returned"
    /\ response.body = "generate"
    /\ gpc = "notstarted"
    /\ gpc' = "connecting"
    /\ UNCHANGED << other, lookup_vars, worker_vars >>
    /\ conn' = "client"
    /\ attempts' = attempts + 1
    /\ waited' = 0
    /\ UNCHANGED elapsed
    /\ UNCHANGED << hpc, content_encoding, response, handler_exc, up, upstream,
                    chunk_count, out, accepted, exc, fail_phase, kind >>

\* Variant of ReceiveResponse: response.raise_for_status() is called on the
\* head, and httpx.HTTPStatusError takes the `except Exception` clause.
ReceiveResponse_RaisesForStatus ==
    /\ gpc = "connecting"
    /\ \E s \in Statuses, ce \in Encodings :
        /\ up' = [status |-> s, content_encoding |-> ce, received |-> TRUE]
        /\ content_encoding' = ce
        /\ IF s \in 200..299
           THEN /\ gpc' = "reading"
                /\ conn' = "response"
                /\ UNCHANGED << out, exc, fail_phase, kind >>
           ELSE /\ exc' = [type |-> "Exception", text |-> <<"b", "o", "o", "m">>]
                /\ fail_phase' = "connecting"
                /\ kind' = "internal_error"
                /\ conn' = "closed"
                /\ out' = Append(out, [src |-> "relay",
                                       bytes |-> FormatErrorEvent(exc'.text)])
                /\ gpc' = "err_yielded"
    /\ chunk_count' = 0
    /\ UNCHANGED << other, lookup_vars, worker_vars >>
    /\ waited' = 0
    /\ UNCHANGED << attempts, elapsed >>
    /\ UNCHANGED << hpc, response, handler_exc, upstream, accepted >>

\* The upstream response head arrives: content_encoding is captured from its
\* headers, chunk_count starts at 0 and the loop awaits the first chunk.
\* Any status code takes this path; the code never looks at it.
ReceiveResponse ==
    /\ gpc = "connecting"
    /\ \E s \in Statuses, ce \in Encodings :
        /\ up' = [status |-> s, content_encoding |-> ce, received |-> TRUE]
        /\ content_encoding' = ce
    /\ chunk_count' = 0
    /\ gpc' = "reading"
    /\ UNCHANGED << other, lookup_vars, worker_vars >>
    /\ conn' = "response"
    /\ waited' = 0
    /\ UNCHANGED << attempts, elapsed >>
    /\ UNCHANGED << hpc, response, handler_exc, upstream, out, accepted, exc,
                    fail_phase, kind >>

\* Variant of WaitEnds: the bound is one deadline for the whole invocation.
WaitEnds_OverallDeadline(t) ==
    IF IsTimeoutException(t)
    THEN LET deadline == IF elapsed < TimeoutTicks THEN TimeoutTicks ELSE elapsed
         IN /\ deadline <= MaxElapsed
            /\ elapsed' = deadline
            /\ waited' = waited + (deadline - elapsed)
    ELSE UNCHANGED << waited, elapsed >>

\* The clock when a wait on upstream ends with an exception of class t.
\* AsyncClient(timeout=300.0) bounds every single wait (connect, each read
\* of the body): a timeout class is raised when the wait in progress has
\* lasted the whole bound, any other exception at the time it has reached.
WaitEnds(t) ==
    IF IsTimeoutException(t)
    THEN /\ elapsed + (TimeoutTicks - waited) <= MaxElapsed
         /\ elapsed' = elapsed + (TimeoutTicks - waited)
         /\ waited' = TimeoutTicks
    ELSE UNCHANGED << waited, elapsed >>

\* Variant of CatchAndYield: the except clause logs the exception and ends
\* the stream without an event.
CatchAndYield_Swallows(e, ph) ==
    /\ exc' = e
    /\ fail_phase' = ph
    /\ kind' = Classify(e.type)
    /\ conn' = "closed"
    /\ gpc' = "done"
    /\ UNCHANGED out

\* Variant of CatchAndYield: once another invocation has failed, every later
\* failure is reported as an internal error.
CatchAndYield_RemembersFailure(e, ph) ==
    /\ exc' = e
    /\ fail_phase' = ph
    /\ kind' = IF other.exc # NoExc THEN "internal_error" ELSE Classify(e.type)
    /\ conn' = "closed"
    /\ IF Classify(e.type) = "propagates"
       THEN /\ gpc' = "raised"
            /\ UNCHANGED out
       ELSE /\ out' = Append(out, ErrorItem(FormatErrorEvent(ErrorMessage(e))))
            /\ gpc' = "err_yielded"

\* The try statement of generate() on the exception e raised in phase ph:
\* the `async with` blocks are left, closing response and client, then the
\* matching except clause builds the event, yields it and stays suspended
\* at that yield; with no matching clause e leaves the generator.
CatchAndYield(e, ph) ==
    /\ exc' = e
    /\ fail_phase' = ph
    /\ kind' = Classify(e.type)
    /\ conn' = "closed"
    /\ IF Classify(e.type) = "propagates"
       THEN /\ gpc' = "raised"
            /\ UNCHANGED out
       ELSE /\ out' = Append(out, ErrorItem(FormatErrorEvent(ErrorMessage(e))))
            /\ gpc' = "err_yielded"

\* Variant of ConnectFail: a failed connect is tried once more.
ConnectFail_RetriesOnce ==
    /\ gpc = "connecting"
    /\ \E t \in ConnectExcTypes, text \in Texts :
        IF attempts < 2
        THEN /\ attempts' = attempts + 1
             /\ waited' = 0
             /\ UNCHANGED << gpc, exc, fail_phase, kind, out, conn, elapsed >>
        ELSE /\ CatchAndYield([type |-> t, text |-> text], "connecting")
             /\ WaitEnds(t)
             /\ UNCHANGED attempts
    /\ UNCHANGED << other, lookup_vars, worker_vars >>
    /\ UNCHANGED << hpc, content_encoding, response, handler_exc, up, upstream,
                    chunk_count, accepted >>

\* Entering client.stream(...) raises.
ConnectFail ==
    /\ gpc = "connecting"
    /\ \E t \in ConnectExcTypes, text \in Texts :
        /\ CatchAndYield([type |-> t, text |-> text], "connecting")
        /\ WaitEnds(t)
    /\ UNCHANGED << other, lookup_vars, worker_vars >>
    /\ UNCHANGED attempts
    /\ UNCHANGED << hpc, content_encoding, response, handler_exc, up, upstream,
                    chunk_count, accepted >>

\* Variant of ReadChunk: the `if chunk:` test is missing.
ReadChunk_ForwardsEmpty ==
    /\ gpc = "reading"
    /\ Len(upstream) < MaxChunks
    /\ \E chunk \in Chunks :
        /\ upstream' = Append(upstream, chunk)
        /\ chunk_count' = chunk_count + 1
        /\ out' = Append(out, UpstreamItem(chunk))
        /\ gpc' = "yielded"
    /\ UNCHANGED << other, lookup_vars, worker_vars >>
    /\ waited' = 0
    /\ UNCHANGED << conn, attempts, elapsed >>
    /\ UNCHANGED << hpc, content_encoding, response, handler_exc, up, accepted,
                    exc, fail_phase, kind >>

\* Variant of ReadChunk: the relay keeps reading upstream while the consumer
\* has not yet pulled past the chunk yielded before.
ReadChunk_ReadsAhead ==
    /\ gpc \in { "reading", "yielded" }
    /\ Len(upstream) < MaxChunks
    /\ \E chunk \in Chunks :
        /\ upstream' = Append(upstream, chunk)
        /\ IF chunk # <<>>
           THEN /\ chunk_count' = chunk_count + 1
                /\ out' = Append(out, UpstreamItem(chunk))
                /\ gpc' = "yielded"
           ELSE UNCHANGED << chunk_count, out, gpc >>
    /\ UNCHANGED << other, lookup_vars, worker_vars >>
    /\ waited' = 0
    /\ UNCHANGED << conn, attempts, elapsed >>
    /\ UNCHANGED << hpc, content_encoding, response, handler_exc, up, accepted,
                    exc, fail_phase, kind >>

\* One iteration of `async for chunk in response.aiter_raw()`: a non-empty
\* chunk is counted and yielded, an empty one is skipped and the loop awaits
\* the next chunk.
ReadChunk ==
    /\ gpc = "reading"
    /\ Len(upstream) < MaxChunks
    /\ \E chunk \in Chunks :
        /\ upstream' = Append(upstream, chunk)
        /\ IF chunk # <<>>
           THEN /\ chunk_count' = chunk_count + 1
                /\ out' = Append(out, UpstreamItem(chunk))
                /\ gpc' = "yielded"
           ELSE UNCHANGED << chunk_count, out, gpc >>
    /\ UNCHANGED << other, lookup_vars, worker_vars >>
    /\ waited' = 0
    /\ UNCHANGED << conn, attempts, elapsed >>
    /\ UNCHANGED << hpc, content_encoding, response, handler_exc, up, accepted,
                    exc, fail_phase, kind >>

\* The consumer asks for the next item after a forwarded chunk: generate()
\* resumes after `yield chunk` and awaits the next chunk.
ResumeAfterChunk ==
    /\ gpc = "yielded"
    /\ accepted' = accepted + 1
    /\ gpc' = "reading"
    /\ UNCHANGED << other, lookup_vars, worker_vars >>
    /\ waited' = 0
    /\ UNCHANGED << conn, attempts, elapsed >>
    /\ UNCHANGED << hpc, content_encoding, response, handler_exc, up, upstream,
                    chunk_count, out, exc, fail_phase, kind >>

\* Variant of StreamComplete: the end of the upstream body is reported to the
\* consumer with an event of its own.
StreamComplete_AppendsEvent ==
    /\ gpc = "reading"
    /\ out' = Append(out, ErrorItem(FormatErrorEvent(<<"e", "n", "d">>)))
    /\ gpc' = "err_yielded"
    /\ kind' = "completed"
    /\ UNCHANGED << other, lookup_vars, worker_vars >>
    /\ conn' = "closed"
    /\ UNCHANGED << attempts, waited, elapsed >>
    /\ UNCHANGED << hpc, content_encoding, response, handler_exc, up, upstream,
                    chunk_count, accepted, exc, fail_phase >>

\* aiter_raw() is exhausted: both `async with` blocks exit and generate()
\* returns without yielding anything more.
StreamComplete ==
    /\ gpc = "reading"
    /\ gpc' = "done"
    /\ kind' = "completed"
    /\ UNCHANGED << other, lookup_vars, worker_vars >>
    /\ conn' = "closed"
    /\ UNCHANGED << attempts, waited, elapsed >>
    /\ UNCHANGED << hpc, content_encoding, response, handler_exc, up, upstream,
                    chunk_count, out, accepted, exc, fail_phase >>

\* Variant of ReadFail: a failure of the body read ends the stream without
\* an event.
ReadFail_EndsSilently ==
    /\ gpc = "reading"
    /\ \E t \in ReadExcTypes, text \in Texts :
        /\ exc' = [type |-> t, text |-> text]
        /\ fail_phase' = "streaming"
        /\ kind' = Classify(t)
        /\ WaitEnds(t)
    /\ gpc' = "done"
    /\ UNCHANGED << other, lookup_vars, worker_vars >>
    /\ conn' = "closed"
    /\ UNCHANGED attempts
    /\ UNCHANGED << hpc, content_encoding, response, handler_exc, up, upstream,
                    chunk_count, out, accepted >>

\* aiter_raw() raises while the loop awaits a chunk.
ReadFail ==
    /\ gpc = "reading"
    /\ \E t \in ReadExcTypes, text \in Texts :
        /\ CatchAndYield([type |-> t, text |-> text], "streaming")
        /\ WaitEnds(t)
    /\ UNCHANGED << other, lookup_vars, worker_vars >>
    /\ UNCHANGED attempts
    /\ UNCHANGED << hpc, content_encoding, response, handler_exc, up, upstream,
                    chunk_count, accepted >>

\* Variant of ResumeAfterError: the except clause sits inside the loop, which
\* goes on to the next chunk.
ResumeAfterError_KeepsReading ==
    /\ gpc = "err_yielded"
    /\ response.body = "generate"
    /\ accepted' = accepted + 1
    /\ gpc' = "reading"
    /\ UNCHANGED << other, lookup_vars, worker_vars >>
    /\ UNCHANGED << conn, attempts, waited, elapsed >>
    /\ UNCHANGED << hpc, content_encoding, response, handler_exc, up, upstream,
                    chunk_count, out, exc, fail_phase, kind >>

\* The consumer asks for the next item after the error event: the except
\* clause ends and generate() returns.
ResumeAfterError ==
    /\ gpc = "err_yielded"
    /\ response.body = "generate"
    /\ accepted' = accepted + 1
    /\ gpc' = "done"
    /\ UNCHANGED << other, lookup_vars, worker_vars >>
    /\ UNCHANGED << conn, attempts, waited, elapsed >>
    /\ UNCHANGED << hpc, content_encoding, response, handler_exc, up, upstream,
                    chunk_count, out, exc, fail_phase, kind >>

\* --------------------------------------------- the generator error_stream()
\* The body of the response the handler's own except clause returns: one
\* event carrying str(e), then the end of the stream.
StartErrorStream ==
    /\ hpc = "returned"
    /\ response.body = "error_stream"
    /\ gpc = "notstarted"
    /\ out' = Append(out, ErrorItem(FormatErrorEvent(handler_exc.text)))
    /\ kind' = "internal_error"
    /\ gpc' = "err_yielded"
    /\ UNCHANGED << other, lookup_vars, worker_vars >>
    /\ UNCHANGED << conn, attempts, waited, elapsed >>
    /\ UNCHANGED << hpc, content_encoding, response, handler_exc, up, upstream,
                    chunk_count, accepted, exc, fail_phase >>

FinishErrorStream ==
    /\ gpc = "err_yielded"
    /\ response.body = "error_stream"
    /\ accepted' = accepted + 1
    /\ gpc' = "done"
    /\ UNCHANGED << other, lookup_vars, worker_vars >>
    /\ UNCHANGED << conn, attempts, waited, elapsed >>
    /\ UNCHANGED << hpc, content_encoding, response, handler_exc, up, upstream,
                    chunk_count, out, exc, fail_phase, kind >>

\* Variant of Cancel: the client and the response are not opened with
\* `async with` and stay open when the generator is torn down.
Cancel_LeavesConnectionOpen ==
    /\ gpc \in { "connecting", "reading", "yielded", "err_yielded" }
    /\ \A t \in TeardownTypes : Classify(t) = "propagates"
    /\ gpc' = "cancelled"
    /\ IF kind = None THEN kind' = "cancelled" ELSE UNCHANGED kind
    /\ UNCHANGED << other, lookup_vars, worker_vars >>
    /\ UNCHANGED << conn, attempts, waited, elapsed >>
    /\ UNCHANGED << hpc, content_encoding, response, handler_exc, up, upstream,
                    chunk_count, out, accepted, exc, fail_phase >>

\* ------------------------------------------------------------- the consumer
\* The consumer goes away while the body is being produced.  The generator
\* is torn down with asyncio.CancelledError or GeneratorExit, both of them
\* BaseException and so matched by none of the except clauses; the
\* `async with` blocks close the upstream response and the client.
Cancel ==
    /\ gpc \in { "connecting", "reading", "yielded", "err_yielded" }
    /\ \A t \in TeardownTypes : Classify(t) = "propagates"
    /\ gpc' = "cancelled"
    /\ IF kind = None THEN kind' = "cancelled" ELSE UNCHANGED kind
    /\ UNCHANGED << other, lookup_vars, worker_vars >>
    /\ conn' = IF conn = "none" THEN "none" ELSE "closed"
    /\ UNCHANGED << attempts, waited, elapsed >>
    /\ UNCHANGED << hpc, content_encoding, response, handler_exc, up, upstream,
                    chunk_count, out, accepted, exc, fail_phase >>

Next ==
    \/ proxy_semantic_search_stream
    \/ StartGenerate
    \/ ReceiveResponse
    \/ ConnectFail
    \/ ReadChunk
    \/ ResumeAfterChunk
    \/ StreamComplete
    \/ ReadFail
    \/ ResumeAfterError
    \/ StartErrorStream
    \/ FinishErrorStream
    \/ Cancel

Spec == Init /\ [][Next]_vars

\* The stream endpoint when the handler runs, the consumer keeps pulling the
\* body and upstream eventually answers, delivers, closes or fails.
FairSpec ==
    /\ Spec
    /\ WF_vars(proxy_semantic_search_stream)
    /\ WF_vars(StartGenerate \/ StartErrorStream)
    /\ WF_vars(ResumeAfterChunk \/ ResumeAfterError \/ FinishErrorStream)
    /\ WF_vars(ReceiveResponse \/ ConnectFail)
    /\ WF_vars(ReadChunk \/ StreamComplete \/ ReadFail)

\* ------------------------------------------------- two requests in flight
\* The request the actions above are running, as one value.
ThisRequest ==
    [hpc |-> hpc, content_encoding |-> content_encoding, response |-> response,
     handler_exc |-> handler_exc, gpc |-> gpc, up |-> up, upstream |-> upstream,
     chunk_count |-> chunk_count, out |-> out, accepted |-> accepted,
     exc |-> exc, fail_phase |-> fail_phase, kind |-> kind, conn |-> conn,
     attempts |-> attempts, waited |-> waited, elapsed |-> elapsed]

\* The task of request r has finished: the handler raised, or the body
\* generator returned, raised or was closed.
RequestOver(r) ==
    \/ r.hpc = "raised"
    \/ r.gpc \in { "done", "cancelled", "raised" }

\* Variant of Switch: content_encoding is a module-level name that all
\* requests assign and read.
Switch_SharedContentEncoding ==
    /\ Len(upstream) + Len(other.upstream) <= MaxInterleavedChunks
    /\ ~RequestOver(ThisRequest)
    /\ ~RequestOver(other)
    /\ other' = ThisRequest
    /\ hpc' = other.hpc
    /\ response' = other.response
    /\ handler_exc' = other.handler_exc
    /\ gpc' = other.gpc
    /\ up' = other.up
    /\ upstream' = other.upstream
    /\ chunk_count' = other.chunk_count
    /\ out' = other.out
    /\ accepted' = other.accepted
    /\ exc' = other.exc
    /\ fail_phase' = other.fail_phase
    /\ kind' = other.kind
    /\ conn' = other.conn
    /\ attempts' = other.attempts
    /\ waited' = other.waited
    /\ elapsed' = other.elapsed
    /\ UNCHANGED << content_encoding, lookup_vars, worker_vars >>

\* The event loop leaves the task of one stream request at an await or a
\* yield and resumes the task of the other, both being unfinished.  Every name the handler and its
\* generator assign is a local of that call (content_encoding is a local of
\* the handler, reached from generate() through `nonlocal`), so all of it
\* goes with the task.
Switch ==
    /\ Len(upstream) + Len(other.upstream) <= MaxInterleavedChunks
    /\ ~RequestOver(ThisRequest)
    /\ ~RequestOver(other)
    /\ other' = ThisRequest
    /\ hpc' = other.hpc
    /\ content_encoding' = other.content_encoding
    /\ response' = other.response
    /\ handler_exc' = other.handler_exc
    /\ gpc' = other.gpc
    /\ up' = other.up
    /\ upstream' = other.upstream
    /\ chunk_count' = other.chunk_count
    /\ out' = other.out
    /\ accepted' = other.accepted
    /\ exc' = other.exc
    /\ fail_phase' = other.fail_phase
    /\ kind' = other.kind
    /\ conn' = other.conn
    /\ attempts' = other.attempts
    /\ waited' = other.waited
    /\ elapsed' = other.elapsed
    /\ UNCHANGED << lookup_vars, worker_vars >>

ConcurrentNext == Next \/ Switch

\* Two stream requests handled by the one event loop.
ConcurrentSpec == Init /\ [][ConcurrentNext]_vars

\* ------------------------------------------------------------------ the clock
\* One tick of wall-clock time passes during an invocation.  A wait on
\* upstream (generate() suspended in the connect or in a read of the body)
\* grows by the tick and stays below the bound, where WaitEnds takes over;
\* time the consumer takes between two pulls belongs to no wait.
Tick ==
    /\ hpc = "returned"
    /\ gpc \in { "connecting", "reading", "yielded" }
    /\ elapsed < MaxElapsed
    /\ gpc \in { "connecting", "reading" } => waited + 1 < TimeoutTicks
    /\ elapsed' = elapsed + 1
    /\ waited' = IF gpc \in { "connecting", "reading" } THEN waited + 1 ELSE waited
    /\ UNCHANGED << hpc, content_encoding, response, handler_exc, gpc, up,
                    upstream, chunk_count, out, accepted, exc, fail_phase, kind,
                    conn, attempts >>
    /\ UNCHANGED << other, lookup_vars, worker_vars >>

TimedNext == Next \/ Tick

\* The stream endpoint with the clock running.
TimedSpec == Init /\ [][TimedNext]_vars

\* ------------------------------------------ the handler proxy_get_workflow
\* Status codes of the upstream answer to the lookup.
LookupStatuses == { 200, 404 }

\* Bodies of the upstream answer: a JSON object written with and without a
\* space after the colon, a body that is not JSON, an empty body.
RawBodies ==
    { << "{", "\"", "s", "t", "a", "t", "u", "s", "\"", ":", " ",
         "\"", "d", "o", "n", "e", "\"", "}" >>,
      << "{", "\"", "s", "t", "a", "t", "u", "s", "\"", ":",
         "\"", "d", "o", "n", "e", "\"", "}" >>,
      << "<", "h", "t", "m", "l", ">" >>,
      <<>> }

\* What `await client.get(dapr_url)` comes back with: a response, or an
\* exception.
LookupOutcomes ==
    { [outcome |-> "response", status_code |-> st, body |-> b, exc |-> NoExc] :
        st \in LookupStatuses, b \in RawBodies }
    \cup
    { [outcome |-> "raise", status_code |-> 0, body |-> <<>>,
       exc |-> [type |-> t, text |-> text]] : t \in ExcTypes, text \in Texts }

InvalidJson == [key |-> None, val |-> None]

\* str(e) of the json.JSONDecodeError response.json() raises (its first words).
JsonErrorText ==
    << "E", "x", "p", "e", "c", "t", "i", "n", "g", " ", "v", "a", "l", "u", "e" >>

ErrorKey == << "e", "r", "r", "o", "r" >>

QuotePositions(raw) == { i \in 1..Len(raw) : raw[i] = "\"" }

SetMin(S) == CHOOSE x \in S : \A y \in S : x <= y
SetMax(S) == CHOOSE x \in S : \A y \in S : x >= y

\* response.json() on a body: the value of an object with one key and a
\* string value without escapes, `{"key": "val"}` with any number of spaces
\* after the colon; InvalidJson stands for raising json.JSONDecodeError.
JsonLoads(raw) ==
    LET q == QuotePositions(raw) IN
    IF Len(raw) < 7 \/ Cardinality(q) # 4 \/ raw[1] # "{" \/ raw[Len(raw)] # "}"
    THEN InvalidJson
    ELSE LET q1 == SetMin(q)
             q4 == SetMax(q)
             q2 == SetMin(q \ {q1})
             q3 == SetMax(q \ {q4})
         IN IF /\ q1 = 2
               /\ q4 = Len(raw) - 1
               /\ q3 > q2 + 1
               /\ raw[q2 + 1] = ":"
               /\ \A i \in (q2 + 2)..(q3 - 1) : raw[i] = " "
            THEN [key |-> SubSeq(raw, q1 + 1, q2 - 1),
                  val |-> SubSeq(raw, q3 + 1, q4 - 1)]
            ELSE InvalidJson

\* The escapes json.dumps applies inside a string.
RECURSIVE JsonEscape(_)
JsonEscape(str) ==
    IF str = <<>> THEN <<>>
    ELSE (CASE Head(str) = "\"" -> << "\\", "\"" >>
            [] Head(str) = "\\" -> << "\\", "\\" >>
            [] Head(str) = "\n" -> << "\\", "n" >>
            [] OTHER -> << Head(str) >>) \o JsonEscape(Tail(str))

\* JSONResponse.render(content): json.dumps with separators (",", ":").
JsonDumps(v) ==
    << "{", "\"" >> \o JsonEscape(v.key) \o << "\"", ":", "\"" >>
        \o JsonEscape(v.val) \o << "\"", "}" >>

\* The exception raised inside the try block of proxy_get_workflow, NoExc if
\* none: the one client.get() raised, or the one response.json() raises.
LookupRaises(o) ==
    IF o.outcome = "raise" THEN o.exc
    ELSE IF JsonLoads(o.body) = InvalidJson
         THEN [type |-> "JSONDecodeError", text |-> JsonErrorText]
         ELSE NoExc

\* Variant of LookupSuccess: the upstream status code is not passed on.
LookupSuccess_Always200(o) ==
    [status_code |-> 200, body |-> JsonDumps(JsonLoads(o.body))]

\* JSONResponse(content=response.json(), status_code=response.status_code)
LookupSuccess(o) ==
    [status_code |-> o.status_code, body |-> JsonDumps(JsonLoads(o.body))]

\* Variant of LookupError: the httpx.RequestError clause is missing.
LookupError_NoRequestErrorClause(e) ==
    IF IsTimeoutException(e.type)
    THEN [status_code |-> 504,
          body |-> JsonDumps([key |-> ErrorKey, val |-> RequestTimeout])]
    ELSE [status_code |-> 500,
          body |-> JsonDumps([key |-> ErrorKey, val |-> e.text])]

\* Variant of LookupError: the httpx.RequestError clause comes first.
LookupError_RequestErrorFirst(e) ==
    IF IsRequestError(e.type)
    THEN [status_code |-> 502,
          body |-> JsonDumps([key |-> ErrorKey,
                              val |-> ConnectionErrorPrefix \o e.text])]
    ELSE IF IsTimeoutException(e.type)
    THEN [status_code |-> 504,
          body |-> JsonDumps([key |-> ErrorKey, val |-> RequestTimeout])]
    ELSE [status_code |-> 500,
          body |-> JsonDumps([key |-> ErrorKey, val |-> e.text])]

\* The except clauses of proxy_get_workflow, tried in source order.
LookupError(e) ==
    IF IsTimeoutException(e.type)
    THEN [status_code |-> 504,
          body |-> JsonDumps([key |-> ErrorKey, val |-> RequestTimeout])]
    ELSE IF IsRequestError(e.type)
    THEN [status_code |-> 502,
          body |-> JsonDumps([key |-> ErrorKey,
                              val |-> ConnectionErrorPrefix \o e.text])]
    ELSE [status_code |-> 500,
          body |-> JsonDumps([key |-> ErrorKey, val |-> e.text])]

\* proxy_get_workflow(workflow_id), the whole handler: one GET to dapr_url,
\* then the upstream answer passed on or the matching except clause.
proxy_get_workflow ==
    /\ wpc = "idle"
    /\ w_attempts' = w_attempts + 1
    /\ \E o \in LookupOutcomes :
        /\ w_up' = o
        /\ IF LookupRaises(o) = NoExc
           THEN /\ w_response' = LookupSuccess(o)
                /\ wpc' = "returned"
           ELSE IF IsException(LookupRaises(o).type)
           THEN /\ w_response' = LookupError(LookupRaises(o))
                /\ wpc' = "returned"
           ELSE /\ w_response' = NoLookupResponse
                /\ wpc' = "raised"
    /\ UNCHANGED << request_vars, other, worker_vars >>

ServiceNext == Next \/ proxy_get_workflow

\* The stream endpoint and the lookup endpoint of the one service.
ServiceSpec == Init /\ [][ServiceNext]_vars

\* --------------------------------- POST /semantic-search/stream-direct
\* The direct endpoint, written over the same state as the Dapr-routed one:
\* the two handlers share no code, each has its own generate() and
\* error_stream().

\* The f-string of the three except clauses and of error_stream() of the
\* direct endpoint, encoded.
FormatErrorEvent_direct(message) == EventPrefix \o message \o EventSuffix

\* Variant of Classify_direct: the direct endpoint has no clause for
\* httpx.TimeoutException.
Classify_direct_NoTimeoutClause(t) ==
    IF IsRequestError(t) THEN "connection_error"
    ELSE IF IsException(t) THEN "internal_error"
    ELSE "propagates"

\* The except clauses of the direct endpoint's generate(), tried in source
\* order.
Classify_direct(t) ==
    IF IsTimeoutException(t) THEN "timeout"
    ELSE IF IsRequestError(t) THEN "connection_error"
    ELSE IF IsException(t) THEN "internal_error"
    ELSE "propagates"

\* The message each of those clauses puts into its event.
ErrorMessage_direct(e) ==
    CASE Classify_direct(e.type) = "timeout" -> RequestTimeout
      [] Classify_direct(e.type) = "connection_error" -> ConnectionErrorPrefix \o e.text
      [] OTHER -> e.text

\* response_headers of the direct endpoint, with Content-Encoding added when
\* content_encoding is truthy.
response_headers_direct(ce) ==
    { <<"Cache-Control", "no-cache">>,
      <<"Connection", "keep-alive">>,
      <<"X-Accel-Buffering", "no">> }
    \cup (IF ce # None THEN { <<"Content-Encoding", ce>> } ELSE {})

\* proxy_semantic_search_stream_direct(request), the whole handler.
proxy_semantic_search_stream_direct ==
    /\ hpc = "idle"
    /\ \E b \in Bodies, text \in HandlerTexts :
        IF b = "object"
        THEN /\ content_encoding' = None
             /\ response' = [media_type |-> "text/event-stream",
                             headers |-> response_headers_direct(content_encoding'),
                             body |-> "generate"]
             /\ handler_exc' = NoExc
             /\ hpc' = "returned"
        ELSE /\ handler_exc' = [type |-> BodyException(b), text |-> text]
             /\ IF IsException(BodyException(b))
                THEN /\ response' = [media_type |-> "text/event-stream",
                                     headers |-> {},
                                     body |-> "error_stream"]
                     /\ hpc' = "returned"
                ELSE /\ response' = NoResponse
                     /\ hpc' = "raised"
             /\ UNCHANGED content_encoding
    /\ UNCHANGED << other, lookup_vars, worker_vars >>
    /\ UNCHANGED << conn, attempts, waited, elapsed >>
    /\ UNCHANGED << gpc, up, upstream, chunk_count, out, accepted, exc,
                    fail_phase, kind >>

\* The consumer's first __anext__(): generate() runs up to the await inside
\* `async with client.stream(...)`, one request to api_url.
StartGenerate_direct ==
    /\ hpc = "returned"
    /\ response.body = "generate"
    /\ gpc = "notstarted"
    /\ gpc' = "connecting"
    /\ UNCHANGED << other, lookup_vars, worker_vars >>
    /\ conn' = "client"
    /\ attempts' = attempts + 1
    /\ waited' = 0
    /\ UNCHANGED elapsed
    /\ UNCHANGED << hpc, content_encoding, response, handler_exc, up, upstream,
                    chunk_count, out, accepted, exc, fail_phase, kind >>

\* The response head of the API arrives and content_encoding is captured.
ReceiveResponse_direct ==
    /\ gpc = "connecting"
    /\ \E s \in Statuses, ce \in Encodings :
        /\ up' = [status |-> s, content_encoding |-> ce, received |-> TRUE]
        /\ content_encoding' = ce
    /\ chunk_count' = 0
    /\ gpc' = "reading"
    /\ UNCHANGED << other, lookup_vars, worker_vars >>
    /\ conn' = "response"
    /\ waited' = 0
    /\ UNCHANGED << attempts, elapsed >>
    /\ UNCHANGED << hpc, response, handler_exc, upstream, out, accepted, exc,
                    fail_phase, kind >>

\* The wait that ends when exception class t is raised, under the direct
\* endpoint's AsyncClient(timeout=300.0).
WaitEnds_direct(t) ==
    IF IsTimeoutException(t)
    THEN /\ elapsed + (TimeoutTicks - waited) <= MaxElapsed
         /\ elapsed' = elapsed + (TimeoutTicks - waited)
         /\ waited' = TimeoutTicks
    ELSE UNCHANGED << waited, elapsed >>

\* The try statement of the direct endpoint's generate() on the exception e
\* raised in phase ph.
CatchAndYield_direct(e, ph) ==
    /\ exc' = e
    /\ fail_phase' = ph
    /\ kind' = Classify_direct(e.type)
    /\ conn' = "closed"
    /\ IF Classify_direct(e.type) = "propagates"
       THEN /\ gpc' = "raised"
            /\ UNCHANGED out
       ELSE /\ out' = Append(out, ErrorItem(FormatErrorEvent_direct(ErrorMessage_direct(e))))
            /\ gpc' = "err_yielded"

\* Entering client.stream(...) to api_url raises.
ConnectFail_direct ==
    /\ gpc = "connecting"
    /\ \E t \in ConnectExcTypes, text \in Texts :
        /\ CatchAndYield_direct([type |-> t, text |-> text], "connecting")
        /\ WaitEnds_direct(t)
    /\ UNCHANGED << other, lookup_vars, worker_vars >>
    /\ UNCHANGED attempts
    /\ UNCHANGED << hpc, content_encoding, response, handler_exc, up, upstream,
                    chunk_count, accepted >>

\* Variant of ReadChunk_direct: a chunk of zero bytes is taken for the end of
\* the body.
ReadChunk_direct_EmptyEndsStream ==
    /\ gpc = "reading"
    /\ Len(upstream) < MaxChunks
    /\ \E chunk \in Chunks :
        /\ upstream' = Append(upstream, chunk)
        /\ IF chunk # <<>>
           THEN /\ chunk_count' = chunk_count + 1
                /\ out' = Append(out, UpstreamItem(chunk))
                /\ gpc' = "yielded"
                /\ UNCHANGED << conn, kind >>
           ELSE /\ gpc' = "done"
                /\ kind' = "completed"
                /\ conn' = "closed"
                /\ UNCHANGED << chunk_count, out >>
    /\ UNCHANGED << other, lookup_vars, worker_vars >>
    /\ waited' = 0
    /\ UNCHANGED << attempts, elapsed >>
    /\ UNCHANGED << hpc, content_encoding, response, handler_exc, up, accepted,
                    exc, fail_phase >>

\* One iteration of `async for chunk in response.aiter_raw()` of the direct
\* endpoint.
ReadChunk_direct ==
    /\ gpc = "reading"
    /\ Len(upstream) < MaxChunks
    /\ \E chunk \in Chunks :
        /\ upstream' = Append(upstream, chunk)
        /\ IF chunk # <<>>
           THEN /\ chunk_count' = chunk_count + 1
                /\ out' = Append(out, UpstreamItem(chunk))
                /\ gpc' = "yielded"
           ELSE UNCHANGED << chunk_count, out, gpc >>
    /\ UNCHANGED << other, lookup_vars, worker_vars >>
    /\ waited' = 0
    /\ UNCHANGED << conn, attempts, elapsed >>
    /\ UNCHANGED << hpc, content_encoding, response, handler_exc, up, accepted,
                    exc, fail_phase, kind >>

\* generate() resumes after `yield chunk`.
ResumeAfterChunk_direct ==
    /\ gpc = "yielded"
    /\ accepted' = accepted + 1
    /\ gpc' = "reading"
    /\ UNCHANGED << other, lookup_vars, worker_vars >>
    /\ waited' = 0
    /\ UNCHANGED << conn, attempts, elapsed >>
    /\ UNCHANGED << hpc, content_encoding, response, handler_exc, up, upstream,
                    chunk_count, out, exc, fail_phase, kind >>

\* aiter_raw() is exhausted: both `async with` blocks are left and generate()
\* returns.
StreamComplete_direct ==
    /\ gpc = "reading"
    /\ gpc' = "done"
    /\ kind' = "completed"
    /\ UNCHANGED << other, lookup_vars, worker_vars >>
    /\ conn' = "closed"
    /\ UNCHANGED << attempts, waited, elapsed >>
    /\ UNCHANGED << hpc, content_encoding, response, handler_exc, up, upstream,
                    chunk_count, out, accepted, exc, fail_phase >>

\* aiter_raw() raises while the body of the API's response is read.
ReadFail_direct ==
    /\ gpc = "reading"
    /\ \E t \in ReadExcTypes, text \in Texts :
        /\ CatchAndYield_direct([type |-> t, text |-> text], "streaming")
        /\ WaitEnds_direct(t)
    /\ UNCHANGED << other, lookup_vars, worker_vars >>
    /\ UNCHANGED attempts
    /\ UNCHANGED << hpc, content_encoding, response, handler_exc, up, upstream,
                    chunk_count, accepted >>

\* generate() resumes after the yield of an except clause and returns.
ResumeAfterError_direct ==
    /\ gpc = "err_yielded"
    /\ response.body = "generate"
    /\ accepted' = accepted + 1
    /\ gpc' = "done"
    /\ UNCHANGED << other, lookup_vars, worker_vars >>
    /\ UNCHANGED << conn, attempts, waited, elapsed >>
    /\ UNCHANGED << hpc, content_encoding, response, handler_exc, up, upstream,
                    chunk_count, out, exc, fail_phase, kind >>

\* error_stream() of the direct endpoint yields its one event.
StartErrorStream_direct ==
    /\ hpc = "returned"
    /\ response.body = "error_stream"
    /\ gpc = "notstarted"
    /\ out' = Append(out, ErrorItem(FormatErrorEvent_direct(handler_exc.text)))
    /\ kind' = "internal_error"
    /\ gpc' = "err_yielded"
    /\ UNCHANGED << other, lookup_vars, worker_vars >>
    /\ UNCHANGED << conn, attempts, waited, elapsed >>
    /\ UNCHANGED << hpc, content_encoding, response, handler_exc, up, upstream,
                    chunk_count, accepted, exc, fail_phase >>

\* error_stream() resumes after its yield and returns.
FinishErrorStream_direct ==
    /\ gpc = "err_yielded"
    /\ response.body = "error_stream"
    /\ accepted' = accepted + 1
    /\ gpc' = "done"
    /\ UNCHANGED << other, lookup_vars, worker_vars >>
    /\ UNCHANGED << conn, attempts, waited, elapsed >>
    /\ UNCHANGED << hpc, content_encoding, response, handler_exc, up, upstream,
                    chunk_count, out, exc, fail_phase, kind >>

\* The consumer goes away while the direct endpoint's generator is suspended.
Cancel_direct ==
    /\ gpc \in { "connecting", "reading", "yielded", "err_yielded" }
    /\ \A t \in TeardownTypes : Classify_direct(t) = "propagates"
    /\ gpc' = "cancelled"
    /\ IF kind = None THEN kind' = "cancelled" ELSE UNCHANGED kind
    /\ UNCHANGED << other, lookup_vars, worker_vars >>
    /\ conn' = IF conn = "none" THEN "none" ELSE "closed"
    /\ UNCHANGED << attempts, waited, elapsed >>
    /\ UNCHANGED << hpc, content_encoding, response, handler_exc, up, upstream,
                    chunk_count, out, accepted, exc, fail_phase >>

\* The steps of the direct relay.
Next_direct ==
    \/ proxy_semantic_search_stream_direct
    \/ StartGenerate_direct
    \/ ReceiveResponse_direct
    \/ ConnectFail_direct
    \/ ReadChunk_direct
    \/ ResumeAfterChunk_direct
    \/ StreamComplete_direct
    \/ ReadFail_direct
    \/ ResumeAfterError_direct
    \/ StartErrorStream_direct
    \/ FinishErrorStream_direct
    \/ Cancel_direct

\* One invocation served by either endpoint.
BothRelaysNext == Next \/ Next_direct

BothRelaysSpec == Init /\ [][BothRelaysNext]_vars

\* ------------------------------------------- the embedding model cache
\* activities/generate_embeddings.py.  The workflow runtime runs activities
\* on a pool of worker threads, and generate_embeddings calls
\* _get_model(model_name); nothing in the module takes a lock.

\* _get_model(model_name) on thread t up to the load: the default name
\* replaces a missing one, and a name found in _models returns the cached
\* model at once.
GetModelCheck(t) ==
    /\ tpc[t] = "idle"
    /\ \E model_name \in ModelNames \cup { None } :
        LET name == IF model_name = None THEN default_model_name ELSE model_name
        IN /\ tname' = [tname EXCEPT ![t] = name]
           /\ IF models[name] # NoModel
              THEN /\ tret' = [tret EXCEPT ![t] = [outcome |-> "returned",
                                                   model |-> models[name]]]
                   /\ UNCHANGED tpc
              ELSE /\ tpc' = [tpc EXCEPT ![t] = "loading"]
                   /\ tret' = [tret EXCEPT ![t] = NoReturn]
    /\ UNCHANGED << models, loads, tmodel >>
    /\ UNCHANGED << proxy_vars, manager_vars, app_vars >>

\* The try block on thread t: SentenceTransformer(model_name, device=device)
\* builds a new object, or the import or the constructor raises and
\* RuntimeError leaves _get_model.
GetModelLoad(t) ==
    /\ tpc[t] = "loading"
    /\ \/ /\ loads' = [loads EXCEPT ![tname[t]] = @ + 1]
          /\ tmodel' = [tmodel EXCEPT ![t] = [name |-> tname[t], id |-> loads'[tname[t]]]]
          /\ tpc' = [tpc EXCEPT ![t] = "loaded"]
          /\ UNCHANGED tret
       \/ /\ tret' = [tret EXCEPT ![t] = [outcome |-> "RuntimeError", model |-> NoModel]]
          /\ tpc' = [tpc EXCEPT ![t] = "idle"]
          /\ UNCHANGED << loads, tmodel >>
    /\ UNCHANGED << models, tname >>
    /\ UNCHANGED << proxy_vars, manager_vars, app_vars >>

\* _models[model_name] = model; return model
GetModelStore(t) ==
    /\ tpc[t] = "loaded"
    /\ models' = [models EXCEPT ![tname[t]] = tmodel[t]]
    /\ tret' = [tret EXCEPT ![t] = [outcome |-> "returned", model |-> tmodel[t]]]
    /\ tpc' = [tpc EXCEPT ![t] = "idle"]
    /\ UNCHANGED << loads, tname, tmodel >>
    /\ UNCHANGED << proxy_vars, manager_vars, app_vars >>

CacheNext ==
    \E t \in WorkerThreads :
        \/ GetModelCheck(t)
        \/ GetModelLoad(t)
        \/ GetModelStore(t)

\* Activities calling _get_model on the worker threads.
CacheSpec == Init /\ [][CacheNext]_vars

\* ------------------------------------------- the workflow runtime manager
\* workflow_manager.py.  ok tells whether the call into the runtime returns
\* (TRUE) or raises an Exception (FALSE).

\* WorkflowRuntimeManager.start() up to `await asyncio.sleep(2)`:
\* workflow_runtime.start() returns and the coroutine sleeps, or it raises
\* and the except clause re-raises.
StartRuns(ok) ==
    /\ m_calls' = m_calls + 1
    /\ IF ok
       THEN /\ runtime' = "started"
            /\ mpc' = mpc + 1
            /\ UNCHANGED << is_running, m_result >>
       ELSE /\ m_result' = [op |-> "start", outcome |-> "raised",
                            raised_inside |-> TRUE, was_running |-> is_running]
            /\ UNCHANGED << is_running, runtime, mpc >>

\* start() after the sleep: self.is_running = True, and the call returns.
StartWakes ==
    /\ mpc > 0
    /\ is_running' = TRUE
    /\ mpc' = mpc - 1
    /\ m_result' = [op |-> "start", outcome |-> "returned",
                    raised_inside |-> FALSE, was_running |-> is_running]
    /\ UNCHANGED << runtime, m_calls >>

\* Variant of StopRuns: self.is_running = False comes before the call of
\* workflow_runtime.shutdown().
StopRuns_ClearsFlagFirst(ok) ==
    /\ m_calls' = m_calls + 1
    /\ is_running' = FALSE
    /\ runtime' = IF ok THEN "shutdown" ELSE runtime
    /\ m_result' = [op |-> "stop", outcome |-> "returned",
                    raised_inside |-> ~ok, was_running |-> is_running]
    /\ UNCHANGED mpc

\* WorkflowRuntimeManager.stop(), which has no await: shutdown() returns and
\* is_running is cleared, or it raises and the except clause logs the error.
StopRuns(ok) ==
    /\ m_calls' = m_calls + 1
    /\ IF ok
       THEN /\ runtime' = "shutdown"
            /\ is_running' = FALSE
       ELSE UNCHANGED << runtime, is_running >>
    /\ m_result' = [op |-> "stop", outcome |-> "returned",
                    raised_inside |-> ~ok, was_running |-> is_running]
    /\ UNCHANGED mpc

\* Some task calls start().
WorkflowRuntimeManager_start ==
    /\ m_calls < MaxManagerCalls
    /\ \E ok \in BOOLEAN : StartRuns(ok)
    /\ UNCHANGED << proxy_vars, cache_vars, app_vars >>

\* The sleep of a running start() is over.
WorkflowRuntimeManager_start_resumes ==
    /\ StartWakes
    /\ UNCHANGED << proxy_vars, cache_vars, app_vars >>

\* Some task calls stop(), possibly while a start() is asleep.
WorkflowRuntimeManager_stop ==
    /\ m_calls < MaxManagerCalls
    /\ \E ok \in BOOLEAN : StopRuns(ok)
    /\ UNCHANGED << proxy_vars, cache_vars, app_vars >>

ManagerNext ==
    \/ WorkflowRuntimeManager_start
    \/ WorkflowRuntimeManager_start_resumes
    \/ WorkflowRuntimeManager_stop

\* The manager called by any tasks, in any order.
ManagerSpec == Init /\ [][ManagerNext]_vars

\* ------------------------------------------------------- HelloWorldApp
\* main.py.  log records the calls start() makes, in order.

\* HelloWorldApp.start() up to the sleep inside
\* `await workflow_runtime_manager.start()`, or, when the runtime raises, up to
\* the finally block with the exception re-raised by the except clause.
HelloWorldApp_start ==
    /\ apc = "init"
    /\ \E ok \in BOOLEAN :
        /\ StartRuns(ok)
        /\ apc' = IF ok THEN "manager_start" ELSE "failed"
    /\ log' = Append(log, "manager.start")
    /\ UNCHANGED << shutdown_event, server_task, signals >>
    /\ UNCHANGED << proxy_vars, cache_vars >>

\* The manager's start() returns: asyncio.create_task(self._run_server()),
\* then start() waits in `await self.shutdown_event.wait()`.
HelloWorldApp_create_server ==
    /\ apc = "manager_start"
    /\ StartWakes
    /\ server_task' = "running"
    /\ log' = log \o << "manager.start returned", "create_task" >>
    /\ apc' = "waiting"
    /\ UNCHANGED << shutdown_event, signals >>
    /\ UNCHANGED << proxy_vars, cache_vars >>

\* signal_handler(signum, frame), installed by main() before app.start().
signal_handler ==
    /\ signals < MaxSignals
    /\ signals' = signals + 1
    /\ shutdown_event' = TRUE
    /\ UNCHANGED << apc, server_task, log >>
    /\ UNCHANGED << proxy_vars, cache_vars, manager_vars >>

\* _run_server(): server.serve() returns or raises on its own.
run_server_ends ==
    /\ server_task = "running"
    /\ \E how \in { "finished", "failed" } : server_task' = how
    /\ UNCHANGED << apc, shutdown_event, signals, log >>
    /\ UNCHANGED << proxy_vars, cache_vars, manager_vars >>

\* start() after the wait: server_task.cancel() and `await server_task`.  A
\* running task ends cancelled and CancelledError is passed over; a task that
\* had failed hands its exception to the except clause, which re-raises.
HelloWorldApp_cancel_server ==
    /\ apc = "waiting"
    /\ shutdown_event
    /\ log' = Append(log, "cancel")
    /\ server_task' = IF server_task = "running" THEN "cancelled" ELSE server_task
    /\ apc' = IF server_task = "failed" THEN "failed" ELSE "finally"
    /\ UNCHANGED << shutdown_event, signals >>
    /\ UNCHANGED << proxy_vars, cache_vars, manager_vars >>

\* Variant of HelloWorldApp_stop: `await self.stop()` follows the try
\* statement instead of standing in its finally clause.
HelloWorldApp_stop_AfterTry ==
    /\ apc \in { "finally", "failed" }
    /\ IF apc = "failed"
       THEN /\ apc' = "raised"
            /\ UNCHANGED << log, manager_vars >>
       ELSE /\ \E ok \in BOOLEAN : StopRuns(ok)
            /\ log' = Append(log, "manager.stop")
            /\ apc' = "returned"
    /\ UNCHANGED << shutdown_event, server_task, signals >>
    /\ UNCHANGED << proxy_vars, cache_vars >>

\* The finally clause of start(): self.stop() calls the manager's stop(),
\* then start() returns or lets the pending exception go on.
HelloWorldApp_stop ==
    /\ apc \in { "finally", "failed" }
    /\ \E ok \in BOOLEAN : StopRuns(ok)
    /\ log' = Append(log, "manager.stop")
    /\ apc' = IF apc = "failed" THEN "raised" ELSE "returned"
    /\ UNCHANGED << shutdown_event, server_task, signals >>
    /\ UNCHANGED << proxy_vars, cache_vars >>

\* While the runtime is started its worker threads execute activities, which
\* call _get_model.
run_activity ==
    /\ runtime = "started"
    /\ CacheNext

AppNext ==
    \/ HelloWorldApp_start
    \/ HelloWorldApp_create_server
    \/ signal_handler
    \/ run_server_ends
    \/ HelloWorldApp_cancel_server
    \/ HelloWorldApp_stop
    \/ run_activity

\* One run of the worker process.
AppSpec == Init /\ [][AppNext]_vars

\* ------------------------------------------------------- derived quantities
\* The forwarded upstream chunks among the items handed to the consumer.
Forwarded == SelectSeq(out, LAMBDA item : item.src = "upstream")

\* The positions of the synthetic error events among those items.
ErrorIdx == { i \in 1..Len(out) : out[i].src = "relay" }

\* The non-empty chunks upstream has delivered, in arrival order.
NonEmptyChunks == SelectSeq(upstream, LAMBDA c : c # <<>>)

\* The byte strings of the items handed to the consumer.
OutBytes == [i \in 1..Len(out) |-> out[i].bytes]

Min(a, b) == IF a < b THEN a ELSE b

\* The chunks the consumer has pulled past.
AcceptedChunks == Min(accepted, Len(Forwarded))

\* s occurs in t as a contiguous run.
Contains(t, s) ==
    \E i \in 1..(Len(t) - Len(s) + 1) : SubSeq(t, i, i + Len(s) - 1) = s

\* ------------------------------------------------------------------ claims

\* C1 as stated: when the upstream body ends cleanly, the items handed to the
\* consumer are exactly the chunks upstream delivered, none dropped.
C1_AllChunksForwarded ==
    kind = "completed" =>
        /\ OutBytes = upstream
        /\ ErrorIdx = {}

\* C1, amended: when the upstream body ends cleanly, the items handed to the
\* consumer are exactly the non-empty chunks upstream delivered, in arrival
\* order, byte for byte, none duplicated or dropped, and nothing follows the
\* last of them; a zero-length chunk is not forwarded.
C1_NonEmptyChunksForwarded ==
    kind = "completed" =>
        /\ OutBytes = NonEmptyChunks
        /\ ErrorIdx = {}
        /\ chunk_count = Len(out)

C1_Witness ==
    /\ kind = "completed"
    /\ gpc = "done"
    /\ Len(out) = 2
    /\ Len(upstream) = 3
    /\ out[1].bytes # out[2].bytes

\* C2 as stated: at most one upstream chunk has been received and not handed
\* to the consumer; chunk i+1 is never read before chunk i was yielded.
C2_ReadsNeverAheadOfYields == Len(upstream) - Len(Forwarded) <= 1

\* C2, amended: every non-empty chunk received has been handed to the
\* consumer, at most one handed chunk is not yet pulled past, and the relay
\* reads the next upstream chunk only when the consumer has pulled past every
\* item yielded so far; a zero-length chunk is skipped, not yielded, and the
\* next chunk is read in the same pull.
C2_PullBasedRelay ==
    /\ [](/\ Len(NonEmptyChunks) = Len(Forwarded)
          /\ Len(Forwarded) - AcceptedChunks <= 1)
    /\ [][Len(upstream') > Len(upstream) =>
            /\ accepted = Len(out)
            /\ Len(upstream') = Len(upstream) + 1]_vars

C2_Witness ==
    /\ gpc = "yielded"
    /\ Len(Forwarded) = 2
    /\ accepted = 1
    /\ Len(upstream) = 3

\* C3: the output of one invocation holds at most one synthetic error event,
\* that event is the last item, and once it was produced nothing more is
\* yielded and no further upstream chunk is read.
C3_ErrorEventIsTerminal ==
    /\ [](/\ Cardinality(ErrorIdx) <= 1
          /\ \A i \in ErrorIdx : i = Len(out))
    /\ [][ErrorIdx # {} => (out' = out /\ upstream' = upstream)]_vars

C3_Witness ==
    /\ gpc = "done"
    /\ ErrorIdx = {3}
    /\ fail_phase = "streaming"
    /\ kind = "connection_error"

C5_ChunksThenOneErrorEvent ==
    (fail_phase = "streaming" /\ chunk_count >= 1) =>
        /\ Len(out) = chunk_count + 1
        /\ \A i \in 1..chunk_count :
              out[i].src = "upstream" /\ out[i].bytes = NonEmptyChunks[i]
        /\ out[Len(out)].src = "relay"
        /\ out[Len(out)].bytes = FormatErrorEvent(ErrorMessage(exc))
        /\ gpc \in { "err_yielded", "done", "cancelled" }

C5_Witness ==
    /\ fail_phase = "streaming"
    /\ exc.type = "Exception"
    /\ chunk_count = 2
    /\ Len(out) = 3
    /\ gpc = "done"

\* The value of the outer response's Content-Encoding header, None if absent.
OuterContentEncoding ==
    IF \E h \in response.headers : h[1] = "Content-Encoding"
    THEN (CHOOSE h \in response.headers : h[1] = "Content-Encoding")[2]
    ELSE None

\* C6: once upstream has answered, the outer response declares the upstream's
\* Content-Encoding value, and declares none when upstream has none.
C6_ContentEncodingMirrored ==
    up.received => OuterContentEncoding = up.content_encoding

\* C7: content_encoding holds the upstream header value when the first chunk
\* is forwarded, and the step that captures it happens no later than the
\* step that fixes the outer response's headers.
C7_CapturedBeforeHeadersFixed ==
    [][/\ (Forwarded = <<>> /\ Forwarded' # <<>>) =>
              content_encoding' = up'.content_encoding
       /\ (~up.received /\ up'.received) => response = NoResponse]_vars

\* The bytes of `event: error\ndata: {"message": "Request timeout"}\n\n`.
RequestTimeoutEvent ==
    << "e", "v", "e", "n", "t", ":", " ", "e", "r", "r", "o", "r", "\n",
       "d", "a", "t", "a", ":", " ",
       "{", "\"", "m", "e", "s", "s", "a", "g", "e", "\"", ":", " ",
       "\"", "R", "e", "q", "u", "e", "s", "t", " ",
       "t", "i", "m", "e", "o", "u", "t", "\"", "}", "\n", "\n" >>

\* C8: when the upstream call times out while connecting, the consumer is
\* handed exactly one item, the bytes of the fixed Request timeout event with
\* nothing interpolated, and the stream ends after it.
C8_ConnectTimeoutEvent ==
    (fail_phase = "connecting" /\ exc.type \in { "ConnectTimeout", "ReadTimeout" }) =>
        /\ OutBytes = << RequestTimeoutEvent >>
        /\ out[1].src = "relay"
        /\ upstream = <<>>
        /\ gpc \in { "err_yielded", "done", "cancelled" }

C8_Witness ==
    /\ fail_phase = "connecting"
    /\ exc.type = "ConnectTimeout"
    /\ gpc = "done"
    /\ accepted = 1

\* C9: when upstream cannot be reached, the consumer is handed exactly one
\* error event, classified connection_error, whose message holds the text of
\* the transport error, and the stream ends after it.
C9_ConnectionErrorEvent ==
    (fail_phase = "connecting" /\ exc.type \in { "ConnectError", "ReadError" }) =>
        /\ Len(out) = 1
        /\ out[1].src = "relay"
        /\ kind = "connection_error"
        /\ out[1].bytes = EventPrefix \o ConnectionErrorPrefix \o exc.text \o EventSuffix
        /\ Contains(out[1].bytes, exc.text)
        /\ gpc \in { "err_yielded", "done", "cancelled" }

C9_Witness ==
    /\ fail_phase = "connecting"
    /\ exc.type = "ConnectError"
    /\ exc.text = <<"r", "e", "f", "u", "s", "e", "d">>
    /\ gpc = "done"

RelayState ==
    CASE gpc = "notstarted" -> "Idle"
      [] gpc = "connecting" -> "Connecting"
      [] gpc \in { "reading", "yielded" } -> "Streaming"
      [] gpc = "done" /\ kind = "completed" -> "Completed"
      [] gpc = "cancelled" -> "Cancelled"
      [] gpc = "raised" -> "Raised"
      [] OTHER -> "Failed"

\* The transitions of the relay's state machine, cancellation included.
RelayTransitions ==
    { <<"Idle", "Connecting">>, <<"Connecting", "Streaming">>,
      <<"Connecting", "Failed">>, <<"Streaming", "Streaming">>,
      <<"Streaming", "Completed">>, <<"Streaming", "Failed">>,
      <<"Failed", "Failed">>, <<"Connecting", "Cancelled">>,
      <<"Streaming", "Cancelled">>, <<"Failed", "Cancelled">> }

\* C11 as stated: a failure in Connecting yields only timeout or
\* connection_error, a failure in Streaming only connection_error or
\* internal_error.
C11_PhaseLimitsKind ==
    /\ fail_phase = "connecting" => kind \in { "timeout", "connection_error" }
    /\ fail_phase = "streaming" => kind \in { "connection_error", "internal_error" }

\* C11, amended: a relay invocation moves Idle -> Connecting -> Streaming ->
\* Completed or Failed(kind), and the kind of a failure is decided by the
\* class of the exception alone, in Connecting and in Streaming alike: a
\* timeout class gives timeout, another transport error connection_error, any
\* other exception internal_error.
C11_StateMachine ==
    /\ [](exc # NoExc =>
            /\ fail_phase \in { "connecting", "streaming" }
            /\ exc.type \in { "ConnectTimeout", "ReadTimeout" } => kind = "timeout"
            /\ exc.type \in { "ConnectError", "ReadError" } => kind = "connection_error"
            /\ exc.type = "Exception" => kind = "internal_error")
    /\ [][(response.body = "generate" /\ gpc' # gpc) =>
            << RelayState, RelayState' >> \in RelayTransitions]_vars

C11_Witness ==
    /\ fail_phase = "streaming"
    /\ kind = "timeout"
    /\ RelayState = "Failed"
    /\ gpc = "done"

\* C12: when the consumer goes away, the upstream response and the client
\* are closed, and from then on no upstream chunk is read, no upstream
\* request is opened and no item, synthetic error event included, is
\* produced.
C12_CancelReleasesUpstream ==
    /\ [](gpc = "cancelled" =>
            /\ conn \notin { "client", "response" }
            /\ attempts >= 1 => conn = "closed")
    /\ [][(gpc = "cancelled" \/ gpc' = "cancelled") =>
            /\ out' = out
            /\ upstream' = upstream
            /\ attempts' = attempts
            /\ conn' \in { "none", "closed" }]_vars

C12_Witness ==
    /\ gpc = "cancelled"
    /\ up.received
    /\ Len(upstream) = 2
    /\ Len(out) = 1
    /\ ErrorIdx = {}
    /\ conn = "closed"

\* C13: one relay invocation opens exactly one upstream request and opens
\* no other after a failure; one workflow lookup makes exactly one upstream
\* request.
C13_SingleAttempt ==
    /\ [](/\ attempts <= 1
          /\ (response.body = "generate" /\ gpc # "notstarted") => attempts = 1
          /\ w_attempts <= 1
          /\ wpc # "idle" => w_attempts = 1)
    /\ [][exc # NoExc => (attempts' = attempts /\ conn' = "closed")]_vars

C13_Witness ==
    /\ exc.type = "ReadError"
    /\ fail_phase = "connecting"
    /\ gpc = "done"
    /\ attempts = 1
    /\ wpc = "returned"
    /\ w_up.outcome = "raise"
    /\ w_attempts = 1

\* C14 as stated: the timeout is one bound on the whole invocation; an
\* invocation that has lasted longer than the bound has ended with the
\* timeout event.
C14_OverallBound == elapsed > TimeoutTicks => kind = "timeout"

\* C14, amended: the timeout bounds each single wait on upstream, the
\* connect and every read of a chunk, not the invocation as a whole: the
\* timeout event is produced only when one wait has lasted the whole bound,
\* and an invocation whose waits each stay below the bound goes on however
\* long it has lasted in total.
C14_TimeoutBoundsEachWait ==
    /\ kind = "timeout" => waited = TimeoutTicks
    /\ gpc \in { "connecting", "reading", "yielded" } => waited < TimeoutTicks
    /\ waited <= elapsed

C14_Witness ==
    /\ elapsed > TimeoutTicks
    /\ kind = "completed"
    /\ Len(out) = 2
    /\ waited < TimeoutTicks

StatusDone ==
    [key |-> << "s", "t", "a", "t", "u", "s" >>, val |-> << "d", "o", "n", "e" >>]

\* C16: when the upstream call of the lookup returns status s with a JSON
\* body, the proxy answers with status s and a body that is the same JSON
\* value, for 200 and for every other status.
C16_LookupPassesStatusAndBody ==
    (wpc # "idle" /\ w_up.outcome = "response"
        /\ w_up.body \in { b \in RawBodies : Cardinality(QuotePositions(b)) = 4 }) =>
        /\ wpc = "returned"
        /\ w_response.status_code = w_up.status_code
        /\ JsonLoads(w_response.body) = StatusDone
        /\ JsonLoads(w_up.body) = StatusDone

C16_Witness ==
    /\ wpc = "returned"
    /\ w_up.outcome = "response"
    /\ w_up.status_code = 404
    /\ Len(w_up.body) = 18
    /\ Len(w_response.body) = 17
    /\ w_response.status_code = 404

\* The value of the lookup's response body, a JSON object.
LookupBody == JsonLoads(w_response.body)

\* C17: every failure of the lookup gives one JSON error response with a
\* fixed status: a timeout 504 with {"error": "Request timeout"}, a
\* connection failure 502 with an error text that holds the transport error
\* text, any other failure, an upstream body that is not JSON included, 500
\* with the text of the exception; nothing leaves the handler as an exception.
C17_LookupFailureStatus ==
    /\ wpc # "raised"
    /\ (wpc # "idle" /\ w_up.outcome = "raise") =>
        /\ LookupBody.key = << "e", "r", "r", "o", "r" >>
        /\ w_up.exc.type \in { "ConnectTimeout", "ReadTimeout" } =>
              /\ w_response.status_code = 504
              /\ LookupBody.val = RequestTimeout
        /\ w_up.exc.type \in { "ConnectError", "ReadError" } =>
              /\ w_response.status_code = 502
              /\ LookupBody.val = ConnectionErrorPrefix \o w_up.exc.text
              /\ Contains(w_response.body, w_up.exc.text)
        /\ w_up.exc.type = "Exception" =>
              /\ w_response.status_code = 500
              /\ LookupBody.val = w_up.exc.text
    /\ (wpc # "idle" /\ w_up.outcome = "response"
            /\ w_up.body \in { <<>>, << "<", "h", "t", "m", "l", ">" >> }) =>
        /\ w_response.status_code = 500
        /\ LookupBody = [key |-> << "e", "r", "r", "o", "r" >>, val |-> JsonErrorText]

C17_Witness ==
    /\ wpc = "returned"
    /\ w_up.outcome = "raise"
    /\ w_up.exc.type = "ConnectError"
    /\ w_response.status_code = 502

\* What request r shows is decided by what its own upstream did: the value
\* it captured is its upstream's header, the chunks it forwarded are its
\* upstream's non-empty chunks, and it ended with the event of its own
\* exception, or with none.
DecidedByOwnUpstream(r) ==
    LET fwd == SelectSeq(r.out, LAMBDA item : item.src = "upstream")
        own == SelectSeq(r.upstream, LAMBDA c : c # <<>>)
        errs == { i \in 1..Len(r.out) : r.out[i].src = "relay" }
    IN /\ r.content_encoding = r.up.content_encoding
       /\ Len(fwd) = Len(own)
       /\ \A i \in 1..Len(fwd) : fwd[i].bytes = own[i]
       /\ r.chunk_count = Len(own)
       /\ r.exc # NoExc =>
            /\ errs = { Len(r.out) }
            /\ r.out[Len(r.out)].bytes = FormatErrorEvent(ErrorMessage(r.exc))
       /\ (r.exc = NoExc /\ r.handler_exc = NoExc) => errs = {}
       /\ r.kind = "completed" => (r.exc = NoExc /\ r.gpc = "done")

\* C18: with two stream requests in flight and interleaved in any way, each
\* request's forwarded chunks, captured content_encoding and outcome are
\* those its own upstream response decides.
C18_RequestsIndependent ==
    /\ DecidedByOwnUpstream(ThisRequest)
    /\ DecidedByOwnUpstream(other)

C18_Witness ==
    /\ up.received
    /\ other.up.received
    /\ content_encoding = None
    /\ other.content_encoding = "gzip"
    /\ Len(out) = 1
    /\ Len(other.out) = 1
    /\ out[1] # other.out[1]
    /\ other.gpc = "yielded"

\* Two invocations that failed on the same exception class in the same phase.
SameFailingCondition ==
    /\ exc # NoExc
    /\ other.exc # NoExc
    /\ exc.type = other.exc.type
    /\ fail_phase = other.fail_phase
    /\ kind \in { "timeout", "connection_error", "internal_error" }

C20_EventStreamHeaders ==
    hpc = "returned" =>
        /\ response.media_type = "text/event-stream"
        /\ { <<"Cache-Control", "no-cache">>,
             <<"Connection", "keep-alive">>,
             <<"X-Accel-Buffering", "no">> } \subseteq response.headers

\* The characters of a JSON string between its quotes: no bare quote or
\* newline, and every backslash starts one of the two-character escapes.
RECURSIVE IsJsonStringBody(_)
IsJsonStringBody(str) ==
    IF str = <<>> THEN TRUE
    ELSE IF Head(str) = "\\"
         THEN /\ Len(str) >= 2
              /\ str[2] \in { "\"", "\\", "/", "b", "f", "n", "r", "t" }
              /\ IsJsonStringBody(Tail(Tail(str)))
         ELSE /\ Head(str) \notin { "\"", "\n" }
              /\ IsJsonStringBody(Tail(str))

EventLine == SubSeq(EventPrefix, 1, 13)

DataField == SubSeq(EventPrefix, 14, 19)

MessageKey == SubSeq(EventPrefix, 22, 28)

\* bytes is one event-stream event `event: error`, ended by its only blank
\* line, whose data line is a JSON object with the single key message.
IsErrorEvent(bytes) ==
    LET n == Len(bytes)
        blank == { i \in 1..(n - 1) : bytes[i] = "\n" /\ bytes[i + 1] = "\n" }
        data == SubSeq(bytes, 20, n - 2)
    IN /\ n >= 21
       /\ SubSeq(bytes, 1, 13) = EventLine
       /\ SubSeq(bytes, 14, 19) = DataField
       /\ blank = { n - 1 }
       /\ JsonLoads(data) # InvalidJson
       /\ JsonLoads(data).key = MessageKey
       /\ IsJsonStringBody(JsonLoads(data).val)

TimeoutAndRequestError ==
    { t \in ExcTypes : IsTimeoutException(t) /\ IsRequestError(t) }

\* C22: an exception that is a timeout and a request error at once is
\* reported as a timeout, in the relay (kind timeout, the Request timeout
\* event, no Connection error text) and in the lookup (504, Request timeout),
\* in whichever phase it is raised; a request error that is no timeout is
\* reported as a connection error.
C22_TimeoutClauseFirst ==
    /\ TimeoutAndRequestError = { "ConnectTimeout", "ReadTimeout" }
    /\ (exc # NoExc /\ exc.type \in TimeoutAndRequestError) =>
        /\ kind = "timeout"
        /\ out[Len(out)] = ErrorItem(FormatErrorEvent(RequestTimeout))
        /\ ~Contains(out[Len(out)].bytes, ConnectionErrorPrefix)
    /\ (exc # NoExc /\ IsRequestError(exc.type)
            /\ exc.type \notin TimeoutAndRequestError) =>
        kind = "connection_error"
    /\ (wpc = "returned" /\ w_up.outcome = "raise"
            /\ w_up.exc.type \in TimeoutAndRequestError) =>
        /\ w_response.status_code = 504
        /\ w_response.status_code # 502
        /\ ~Contains(w_response.body, ConnectionErrorPrefix)

C22_Witness ==
    /\ exc.type = "ReadTimeout"
    /\ fail_phase = "streaming"
    /\ kind = "timeout"
    /\ chunk_count >= 1
    /\ wpc = "returned"
    /\ w_up.outcome = "raise"
    /\ w_up.exc.type = "ConnectTimeout"
    /\ w_response.status_code = 504

\* The status code of the outer response: StreamingResponse is given no
\* status_code and keeps its default.
OuterStatusCode == IF hpc = "returned" THEN 200 ELSE None

\* C23: once upstream has answered with a status outside 2xx, the relay goes
\* on as for any other answer: what it forwards are the non-empty chunks of
\* the upstream body, it emits no error event and ends completed unless a
\* read of the body itself raises, and the outer response is the 200
\* event-stream response built before the head arrived.
C23_ErrorStatusRelayed ==
    (up.received /\ up.status \notin 200..299) =>
        /\ Len(Forwarded) <= Len(NonEmptyChunks)
        /\ \A i \in 1..Len(Forwarded) : Forwarded[i].bytes = NonEmptyChunks[i]
        /\ exc = NoExc =>
              /\ ErrorIdx = {}
              /\ kind \in { None, "completed", "cancelled" }
              /\ gpc = "done" => (kind = "completed" /\ Len(Forwarded) = Len(NonEmptyChunks))
        /\ exc # NoExc =>
              /\ fail_phase = "streaming"
              /\ exc.type \in ReadExcTypes
        /\ OuterStatusCode = 200
        /\ response.media_type = "text/event-stream"
        /\ response.headers = response_headers(None)

C23_Witness ==
    /\ up.received
    /\ up.status = 500
    /\ gpc = "done"
    /\ kind = "completed"
    /\ Len(Forwarded) = 2
    /\ ErrorIdx = {}

\* C25: from every state an invocation reaches, the steps the direct relay
\* can take are the steps the Dapr-routed relay can take: the same request
\* body and the same upstream events give the same items, the same outer
\* response and the same outcome under either endpoint.
C25_SameSteps == [][Next /\ Next_direct]_vars

C25_Witness ==
    /\ hpc = "returned"
    /\ up.received
    /\ up.content_encoding = "gzip"
    /\ Len(Forwarded) = 2
    /\ exc.type = "ReadError"
    /\ kind = "connection_error"
    /\ ErrorIdx = { 3 }
    /\ gpc = "done"

\* aiter_raw() has just delivered a chunk of zero bytes.
EmptyChunkRead ==
    /\ Len(upstream') = Len(upstream) + 1
    /\ upstream'[Len(upstream')] = <<>>

\* C24: under either endpoint no item handed to the consumer is empty: each
\* is a non-empty upstream chunk or the error event, which is the last item;
\* chunk_count counts the non-empty chunks only; and the step that reads a
\* zero-byte chunk yields nothing, counts nothing and leaves the generator
\* reading.
C24_NoEmptyItem ==
    /\ [](/\ \A i \in 1..Len(out) :
               /\ out[i].bytes # <<>>
               /\ out[i].src = "upstream" => out[i].bytes \in Chunks \ { <<>> }
               /\ out[i].src = "relay" => i = Len(out)
          /\ up.received => chunk_count = Len(NonEmptyChunks)
          /\ Len(Forwarded) = chunk_count)
    /\ [][EmptyChunkRead =>
            /\ gpc' = "reading"
            /\ kind' = kind
            /\ UNCHANGED << out, chunk_count, conn >>]_vars

C24_Witness ==
    /\ Len(upstream) = 3
    /\ upstream[1] = <<>>
    /\ upstream[3] = <<>>
    /\ chunk_count = 1
    /\ Len(out) = 1
    /\ gpc = "done"
    /\ kind = "completed"

\* C26: each model name is built at most once, all callers that got a model
\* for a name got the same object, and a name has a cache entry only after a
\* load of it succeeded.
C26_LoadedAtMostOnce ==
    /\ \A n \in ModelNames : loads[n] <= 1
    /\ \A t, u \in WorkerThreads :
          (tret[t].outcome = "returned" /\ tret[u].outcome = "returned"
              /\ tret[t].model.name = tret[u].model.name) => tret[t] = tret[u]
    /\ \A n \in ModelNames : models[n] # NoModel => loads[n] >= 1

\* C28: is_running is true only once workflow_runtime.start() has returned;
\* a start() that raised left is_running as it was; a start() that returned
\* left it true; stop() always returns, leaving is_running false when
\* shutdown() returned and as it was when shutdown() raised.
C28_IsRunningFollowsRuntime ==
    /\ is_running => runtime # "created"
    /\ (m_result.op = "start" /\ m_result.outcome = "raised") =>
          /\ m_result.raised_inside
          /\ is_running = m_result.was_running
    /\ (m_result.op = "start" /\ m_result.outcome = "returned") => is_running
    /\ m_result.op = "stop" =>
          /\ m_result.outcome = "returned"
          /\ ~m_result.raised_inside => ~is_running
          /\ m_result.raised_inside => is_running = m_result.was_running

C28_Witness ==
    /\ m_result.op = "stop"
    /\ m_result.raised_inside
    /\ m_result.was_running
    /\ is_running
    /\ runtime = "started"
    /\ m_calls = 2

\* The place of the first entry e in log, 0 if there is none.
LogPos(e) ==
    IF \E i \in 1..Len(log) : log[i] = e
    THEN CHOOSE i \in 1..Len(log) : log[i] = e /\ \A j \in 1..(i - 1) : log[j] # e
    ELSE 0

\* C27: the server task is created only after the manager's start() has
\* returned; server_task.cancel() is called only with the shutdown event set
\* and after the task was created; and when start() is over, by return or by
\* exception, the manager's stop() has been called once, as the last call,
\* also when the runtime failed to start and no server task was created.
C27_StartupAndShutdownOrder ==
    /\ server_task # "none" <=> LogPos("create_task") > 0
    /\ LogPos("create_task") > 0 =>
          /\ LogPos("manager.start returned") > 0
          /\ LogPos("manager.start returned") < LogPos("create_task")
          /\ runtime # "created"
    /\ (LogPos("cancel") > 0 \/ server_task = "cancelled") =>
          /\ shutdown_event
          /\ LogPos("create_task") > 0
          /\ LogPos("create_task") < LogPos("cancel")
    /\ LogPos("manager.stop") > 0 =>
          /\ LogPos("manager.stop") = Len(log)
          /\ server_task # "none" => LogPos("cancel") > 0
          /\ server_task # "running"
    /\ apc \in { "returned", "raised" } => LogPos("manager.stop") > 0
    /\ (apc = "raised" /\ server_task = "none") =>
          log = << "manager.start", "manager.stop" >>

C27_Witness ==
    /\ apc = "raised"
    /\ server_task = "none"
    /\ runtime = "shutdown"
    /\ m_result.op = "stop"
    /\ log = << "manager.start", "manager.stop" >>

====
